---- MODULE Spec2Model ----
(***************************************************************************)
(* Record reconciliation in data_manager.py: DataManager.add_application   *)
(* resolves one parsed e-mail event against the job_applications table     *)
(* (exact email_id match, explicit related_application_id link, fuzzy      *)
(* company/role/date match, insert) and records it in processed_emails.    *)
(*                                                                         *)
(* Text values are Python/SQL strings.  A string is named by a TLA+ string *)
(* and its characters are given by the table Text, so that lower(),        *)
(* split(), "in" and LIKE are computed on characters.  Dates are named by  *)
(* their 'YYYY-MM-DD' text and parsed by the table Days.                   *)
(*                                                                         *)
(* Calls are made one after the other; each specification feeds the calls  *)
(* from one family of events (SpecStatus, SpecAnyStatus, SpecResolve,      *)
(* SpecOrder, SpecFields) and makes at most MaxCalls of them.  last keeps  *)
(* the argument of the latest call, the branch that returned and the row   *)
(* it resolved to.                                                         *)
(*                                                                         *)
(* Each call commits its row with conn.commit() and then records the       *)
(* e-mail through mark_email_processed on a connection of its own.  The    *)
(* steps Begin, Write and Mark follow one call through its reads and its   *)
(* two commits (variable procs); db tells whether PostgreSQL answers.      *)
(* SpecRace runs two such calls side by side, SpecIngest runs the loop of  *)
(* process_emails (variable run) over them, and SpecHierarchy applies      *)
(* should_update_status to pairs of statuses (variable verdict).           *)
(*                                                                         *)
(* The columns sender, subject, confidence and reasoning go through the    *)
(* same generic branch of every loop over application_data.items() as      *)
(* location; location stands for them.                                     *)
(***************************************************************************)
EXTENDS Integers, Sequences, FiniteSets, TLC

VARIABLES apps, ledger, nextId, last, calls, db, procs, run, verdict

vars == <<apps, ledger, nextId, last, calls, db, procs, run, verdict>>

\* Number of add_application calls made in one behaviour.
MaxCalls == 5

\* Number of add_application calls made by the two concurrent callers.
MaxRaceCalls == 3

\* Python None / SQL NULL for text and date values.
Null == "<null>"

\* NULL for processed_emails.application_id (SERIAL ids start at 1).
NullId == 0

KeyName == <<"e1", "e2", "e3">>

EmailIds == {KeyName[i] : i \in 1..3}

----------------------------------------------------------------------------
\* Strings and dates

Text ==
  [s \in {"Amazon", "Amazon.com", "Data Eng", "Sr Staff Data Ops",
           "Staff Eng Lead", "QA Lead", "SG", "NY", ""} |->
     CASE s = "Amazon" -> <<"A","m","a","z","o","n">>
       [] s = "Amazon.com" -> <<"A","m","a","z","o","n",".","c","o","m">>
       [] s = "Data Eng" -> <<"D","a","t","a"," ","E","n","g">>
       [] s = "Sr Staff Data Ops" ->
            <<"S","r"," ","S","t","a","f","f"," ","D","a","t","a"," ","O","p","s">>
       [] s = "Staff Eng Lead" ->
            <<"S","t","a","f","f"," ","E","n","g"," ","L","e","a","d">>
       [] s = "QA Lead" -> <<"Q","A"," ","L","e","a","d">>
       [] s = "SG" -> <<"S","G">>
       [] s = "NY" -> <<"N","Y">>
       [] OTHER -> <<>>]

\* str.lower() / SQL LOWER() on one character of the alphabet of Text.
LowerChar(c) ==
  CASE c = "A" -> "a" [] c = "D" -> "d" [] c = "E" -> "e" [] c = "G" -> "g"
    [] c = "N" -> "n" [] c = "O" -> "o" [] c = "S" -> "s" [] c = "Y" -> "y"
    [] c = "L" -> "l" [] c = "Q" -> "q"
    [] OTHER -> c

LowerSeq(s) == [i \in 1..Len(s) |-> LowerChar(s[i])]

\* Python "p in s" on strings.
Contains(s, p) ==
  \E i \in 0..(Len(s) - Len(p)) : SubSeq(s, i + 1, i + Len(p)) = p

\* set(s.split()): the maximal runs of non-blank characters.
SplitWords(s) ==
  {SubSeq(s, i, j) : <<i, j>> \in
     {ij \in (1..Len(s)) \X (1..Len(s)) :
        /\ ij[1] <= ij[2]
        /\ \A k \in ij[1]..ij[2] : s[k] # " "
        /\ (ij[1] = 1 \/ s[ij[1] - 1] = " ")
        /\ (ij[2] = Len(s) \/ s[ij[2] + 1] = " ")}}

LowerText == [s \in DOMAIN Text |-> LowerSeq(Text[s])]

RoleWords == [s \in DOMAIN Text |-> SplitWords(LowerText[s])]

\* Python truthiness of an optional string: None and '' are falsy.
Truthy(v) == v # Null /\ v # ""

\* datetime.strptime(d, '%Y-%m-%d') as a day number.
Days == "2024-03-01" :> 0 @@ "2024-03-31" :> 30 @@ "2024-04-01" :> 31

\* Order of the ISO timestamps stored in column date.
Stamp == "2024-03-02T09:00" :> 1 @@ "2024-04-02T09:00" :> 2

Abs(n) == IF n < 0 THEN -n ELSE n

----------------------------------------------------------------------------
\* Status hierarchy

Statuses ==
  {"Applied", "Recruiter Screen", "Interview", "Rejected", "Ghosted", "Dropped", "Offer"}

STATUS_HIERARCHY ==
  [s \in Statuses |->
     CASE s = "Applied" -> 0
       [] s = "Recruiter Screen" -> 1
       [] s = "Interview" -> 2
       [] s = "Rejected" -> 3
       [] s = "Ghosted" -> 3
       [] s = "Dropped" -> 3
       [] s = "Offer" -> 4]

get_status_priority(status) ==
  IF status \in DOMAIN STATUS_HIERARCHY THEN STATUS_HIERARCHY[status] ELSE 0

\* should_update_status without the guard on final statuses.
should_update_status_NoFinalGuard(current_status, new_status) ==
  LET current_priority == get_status_priority(current_status)
      new_priority == get_status_priority(new_status)
  IN  IF new_priority > current_priority THEN TRUE
      ELSE IF current_priority >= 3 /\ new_priority >= 3
             THEN new_priority > current_priority
      ELSE TRUE

\* should_update_status letting a final status stand in for an equal one.
should_update_status_SameFinal(current_status, new_status) ==
  LET current_priority == get_status_priority(current_status)
      new_priority == get_status_priority(new_status)
  IN  IF new_priority > current_priority THEN TRUE
      ELSE IF current_priority >= 3 /\ new_priority >= 3
             THEN current_status = new_status /\ new_priority = 3
      ELSE IF current_priority >= 3 /\ new_priority < 3 THEN FALSE
      ELSE IF current_priority < 3 /\ new_priority >= current_priority THEN TRUE
      ELSE FALSE

should_update_status(current_status, new_status) ==
  LET current_priority == get_status_priority(current_status)
      new_priority == get_status_priority(new_status)
  IN  IF new_priority > current_priority THEN TRUE
      ELSE IF current_priority >= 3 /\ new_priority >= 3
             THEN new_priority > current_priority
      ELSE IF current_priority >= 3 /\ new_priority < 3 THEN FALSE
      ELSE IF current_priority < 3 /\ new_priority >= current_priority THEN TRUE
      ELSE FALSE

----------------------------------------------------------------------------
\* Tables

\* The column list of the INSERT, which names email_id too.
valid_columns_WithKey ==
  {"email_id", "date", "job_title", "company", "location", "status",
   "application_date", "related_application_id"}

\* Columns an UPDATE built by add_application may set.
valid_columns ==
  {"date", "job_title", "company", "location", "status", "application_date",
   "related_application_id"}

\* Columns of job_applications (id is the SERIAL primary key).
AppColumns == {"id", "email_id"} \cup valid_columns

\* Keys of the application_data dict that add_application reads.
EventKeys == {"email_id"} \cup valid_columns

\* mark_email_processed as a plain INSERT, without the ON CONFLICT clause.
mark_email_processed_NoConflict(l, email_id, application_id) ==
  l \cup {[email_id |-> email_id, application_id |-> application_id]}

\* mark_email_processed: INSERT ... ON CONFLICT (email_id) DO UPDATE SET
\* processed_at; an existing row keeps its application_id.
\* ON CONFLICT (email_id) DO UPDATE SET application_id = EXCLUDED.application_id
mark_email_processed_Repoint(l, email_id, application_id) ==
  {p \in l : p.email_id # email_id}
    \cup {[email_id |-> email_id, application_id |-> application_id]}

mark_email_processed(l, email_id, application_id) ==
  IF \E p \in l : p.email_id = email_id
    THEN l
    ELSE l \cup {[email_id |-> email_id, application_id |-> application_id]}

\* The UPDATE with None bound to every column the event does not give.
UpdateOverwrite_NullErases(r, e, current_status) ==
  [f \in AppColumns |->
     IF f \in valid_columns /\ f # "status" THEN e[f] ELSE r[f]]

\* The column values set by the exact-match and by the related-application
\* UPDATE: every non-None value, the status only when the hierarchy allows it.
UpdateOverwrite(r, e, current_status) ==
  [f \in AppColumns |->
     IF f \in valid_columns /\ e[f] # Null
       THEN IF f = "status" /\ Truthy(e.status)
              THEN IF should_update_status(current_status, e.status)
                     THEN e[f] ELSE r[f]
              ELSE e[f]
       ELSE r[f]]

\* The fuzzy-match UPDATE with every given column in its SET list.
UpdateFill_Overwrite(r, e, current_status) ==
  [f \in AppColumns |->
     IF f \in valid_columns /\ e[f] # Null
       THEN IF f = "status" /\ Truthy(e.status) /\ Truthy(current_status)
              THEN IF should_update_status(current_status, e.status)
                     THEN e[f] ELSE r[f]
              ELSE e[f]
       ELSE r[f]]

\* The column values set by the fuzzy-match UPDATE.
UpdateFill(r, e, current_status) ==
  [f \in AppColumns |->
     IF f \in valid_columns /\ e[f] # Null
       THEN IF f = "status" /\ Truthy(e.status) /\ Truthy(current_status)
              THEN IF should_update_status(current_status, e.status)
                     THEN e[f] ELSE r[f]
              ELSE IF ~Truthy(r[f]) \/ Truthy(e[f]) THEN e[f] ELSE r[f]
       ELSE r[f]]

\* The row without the column default of the status.
NewRow_NoDefault(e, id) ==
  [f \in AppColumns |-> IF f = "id" THEN id ELSE e[f]]

\* The row built by INSERT INTO job_applications: the non-None values of the
\* event, the column default 'Applied' for a status that is not given.
NewRow(e, id) ==
  [f \in AppColumns |->
     IF f = "id" THEN id
     ELSE IF f = "status" /\ e[f] = Null THEN "Applied"
     ELSE e[f]]

\* INSERT ... ON CONFLICT (email_id) DO UPDATE SET <inserted columns>.
InsertOrUpdate(A, e, id) ==
  IF \E r \in A : r.email_id = e.email_id
    THEN {IF r.email_id = e.email_id
            THEN [f \in AppColumns |->
                    IF f \in valid_columns /\ e[f] # Null THEN e[f] ELSE r[f]]
            ELSE r : r \in A}
    ELSE A \cup {NewRow(e, id)}

----------------------------------------------------------------------------
\* Fuzzy matching

\* WHERE LOWER(company) LIKE '%<company>%'
Candidates(A, e) ==
  {r \in A : r.company # Null
             /\ Contains(LowerText[r.company], LowerText[e.company])}

company_match(e, r) ==
  LET company == LowerText[e.company]
      existing_company_lower ==
        IF Truthy(r.company) THEN LowerText[r.company] ELSE <<>>
  IN  \/ Contains(existing_company_lower, company)
      \/ Contains(company, existing_company_lower)
      \/ company = existing_company_lower

role_match_AnyCommonWord(e, r) ==
  IF Truthy(e.job_title) /\ Truthy(r.job_title)
    THEN Cardinality(RoleWords[e.job_title] \cap RoleWords[r.job_title]) >= 1
    ELSE TRUE

role_match(e, r) ==
  IF Truthy(e.job_title) /\ Truthy(r.job_title)
    THEN LET role_words == RoleWords[e.job_title]
             common_words == role_words \cap RoleWords[r.job_title]
         IN  \/ Cardinality(common_words) >= 2
             \/ (Cardinality(common_words) >= 1 /\ Cardinality(role_words) <= 3)
    ELSE TRUE

date_match_Within31(e, r) ==
  IF Truthy(e.application_date) /\ Truthy(r.application_date)
    THEN Abs(Days[e.application_date] - Days[r.application_date]) <= 31
    ELSE TRUE

date_match(e, r) ==
  IF Truthy(e.application_date) /\ Truthy(r.application_date)
    THEN Abs(Days[e.application_date] - Days[r.application_date]) <= 30
    ELSE TRUE

IsMatch(e, r) == company_match(e, r) /\ role_match(e, r) /\ date_match(e, r)

\* ORDER BY application_date DESC NULLS LAST, date DESC (a DESC key puts
\* NULL first unless told otherwise): r1 is strictly before r2.
OrderedBefore(r1, r2) ==
  \/ r1.application_date # Null /\ r2.application_date = Null
  \/ /\ r1.application_date # Null /\ r2.application_date # Null
     /\ Days[r1.application_date] > Days[r2.application_date]
  \/ /\ \/ r1.application_date = Null /\ r2.application_date = Null
        \/ /\ r1.application_date # Null /\ r2.application_date # Null
           /\ Days[r1.application_date] = Days[r2.application_date]
     /\ \/ r1.date = Null /\ r2.date # Null
        \/ /\ r1.date # Null /\ r2.date # Null
           /\ Stamp[r1.date] > Stamp[r2.date]

\* cursor.fetchall(): the candidate rows in any order the ORDER BY allows
\* (rows that tie on both keys come in an order SQL leaves open).
FetchAll(A, e) ==
  LET C == Candidates(A, e)
      n == Cardinality(C)
  IN  {m \in [1..n -> C] :
         /\ \A i, j \in 1..n : i # j => m[i] # m[j]
         /\ \A i, j \in 1..n : i < j => ~OrderedBefore(m[j], m[i])}

\* for match in matches: the first row that passes the three checks.
FirstMatch(matches, e) ==
  LET hits == {i \in DOMAIN matches : IsMatch(e, matches[i])}
  IN  IF hits = {} THEN 0
      ELSE CHOOSE i \in hits : \A j \in hits : i <= j

----------------------------------------------------------------------------
\* DataManager.add_application

NoEvent == [f \in EventKeys |-> Null]

\* A caller of add_application or of update_status: two of them may run at
\* the same time.
Procs == {1, 2}

\* No call in progress.
Idle ==
  [pc |-> "idle", ev |-> NoEvent, path |-> "none", key |-> Null,
   target |-> NullId, cols |-> {}, committed |-> FALSE, result |-> "none"]

\* The loop of process_emails before its first message.
NoRun ==
  [at |-> "top", msg |-> Null, report |-> "none", outcome |-> "none",
   existing_df |-> {}]

\* No pair of statuses has been compared.
NoVerdict == [current_status |-> Null, new_status |-> Null, allowed |-> Null]

\* The empty tables of _ensure_table_exists.
InitStore ==
  /\ apps = {}
  /\ ledger = {}
  /\ nextId = 1
  /\ last = [ev |-> NoEvent, path |-> "none", target |-> NullId]
  /\ calls = 0
  /\ db = "up"
  /\ procs = [p \in Procs |-> Idle]
  /\ run = NoRun

Init ==
  /\ InitStore
  /\ verdict = NoVerdict

\* One more call of add_application is made, start to end, with the
\* database up and no other call under way.
CountCall ==
  /\ calls < MaxCalls
  /\ calls' = calls + 1
  /\ UNCHANGED <<db, procs, run, verdict>>

\* if existing: the row with the event's email_id is updated.
ExactMatch(e) ==
  /\ CountCall
  /\ \E existing \in apps :
       /\ existing.email_id = e.email_id
       /\ apps' = {IF r.email_id = e.email_id
                     THEN UpdateOverwrite(r, e, existing.status) ELSE r : r \in apps}
       /\ ledger' = mark_email_processed(ledger, e.email_id, existing.id)
       /\ last' = [ev |-> e, path |-> "exact", target |-> existing.id]
  /\ UNCHANGED nextId

\* if related_app_id: the row whose email_id is the related id is updated.
ExplicitLink(e) ==
  /\ CountCall
  /\ ~\E r \in apps : r.email_id = e.email_id
  /\ Truthy(e.related_application_id)
  /\ \E related_app \in apps :
       /\ related_app.email_id = e.related_application_id
       /\ apps' = {IF r.email_id = e.related_application_id
                     THEN UpdateOverwrite(r, e, related_app.status) ELSE r : r \in apps}
       /\ ledger' = mark_email_processed(ledger, e.email_id, related_app.id)
       /\ last' = [ev |-> e, path |-> "link", target |-> related_app.id]
  /\ UNCHANGED nextId

\* The related-application lookup found a row.
LinkResolves(e) ==
  /\ Truthy(e.related_application_id)
  /\ \E r \in apps : r.email_id = e.related_application_id

\* for match in matches, without the return: every candidate row that
\* matches is updated.
FuzzyUpdate_AllMatches(e) ==
  \E matches \in FetchAll(apps, e) :
    LET i == FirstMatch(matches, e) IN
      /\ i # 0
      /\ apps' = {IF r \in Candidates(apps, e) /\ IsMatch(e, r)
                    THEN UpdateFill(r, e, r.status) ELSE r : r \in apps}
      /\ ledger' = mark_email_processed(ledger, e.email_id, matches[i].id)
      /\ last' = [ev |-> e, path |-> "fuzzy", target |-> matches[i].id]

\* for match in matches: the first candidate row that matches is updated;
\* the trailing UPDATE sets related_application_id on the rows with the
\* event's email_id.
FuzzyUpdate(e) ==
  \E matches \in FetchAll(apps, e) :
    LET i == FirstMatch(matches, e) IN
      /\ i # 0
      /\ LET match == matches[i]
             existing_email_id == match.email_id
             updated == {IF r.email_id = existing_email_id
                           THEN UpdateFill(r, e, match.status) ELSE r : r \in apps}
         IN  /\ apps' = {IF r.email_id = e.email_id
                           THEN [r EXCEPT !.related_application_id = existing_email_id]
                           ELSE r : r \in updated}
             /\ ledger' = mark_email_processed(ledger, e.email_id, match.id)
             /\ last' = [ev |-> e, path |-> "fuzzy", target |-> match.id]

\* The fuzzy search run even when the related application was found.
FuzzyMatch_IgnoreLink(e) ==
  /\ CountCall
  /\ ~\E r \in apps : r.email_id = e.email_id
  /\ Truthy(e.company)
  /\ FuzzyUpdate(e)
  /\ UNCHANGED nextId

\* if company: reached when neither the exact nor the related lookup returned.
FuzzyMatch(e) ==
  /\ CountCall
  /\ ~\E r \in apps : r.email_id = e.email_id
  /\ ~LinkResolves(e)
  /\ Truthy(e.company)
  /\ FuzzyUpdate(e)
  /\ UNCHANGED nextId

\* New application - insert it.
InsertNew(e) ==
  /\ CountCall
  /\ ~\E r \in apps : r.email_id = e.email_id
  /\ ~LinkResolves(e)
  /\ ~(Truthy(e.company) /\ \E r \in Candidates(apps, e) : IsMatch(e, r))
  /\ apps' = InsertOrUpdate(apps, e, nextId)
  /\ nextId' = nextId + 1
  /\ \E r \in apps' :
       /\ r.email_id = e.email_id
       /\ ledger' = mark_email_processed(ledger, e.email_id, r.id)
       /\ last' = [ev |-> e, path |-> "insert", target |-> r.id]

add_application(e) ==
  \/ ExactMatch(e)
  \/ ExplicitLink(e)
  \/ FuzzyMatch(e)
  \/ InsertNew(e)

----------------------------------------------------------------------------
\* One call of add_application, statement by statement

\* update_fields of the exact-match and of the related-application branch.
OverwriteColumns(e, current_status) ==
  {f \in valid_columns :
     /\ e[f] # Null
     /\ (f = "status" /\ Truthy(e.status)) =>
          should_update_status(current_status, e.status)}

\* update_fields of the fuzzy branch, built from the row as it was read.
FillColumns(r, e, current_status) ==
  {f \in valid_columns :
     /\ e[f] # Null
     /\ IF f = "status" /\ Truthy(e.status) /\ Truthy(current_status)
          THEN should_update_status(current_status, e.status)
          ELSE ~Truthy(r[f]) \/ Truthy(e[f])}

\* UPDATE job_applications SET <update_fields> on row r.
SetColumns(r, e, cols) ==
  [f \in AppColumns |-> IF f \in cols THEN e[f] ELSE r[f]]

\* What the reads of a call decide: the branch, the email_id its UPDATE
\* names, the id it will record and the columns it will set.
Plan(e, path, key, target, cols) ==
  [pc |-> "write", ev |-> e, path |-> path, key |-> key, target |-> target,
   cols |-> cols, committed |-> FALSE, result |-> "none"]

\* The reads without the fuzzy search.
Plans_NoFuzzy(e) ==
  IF \E r \in apps : r.email_id = e.email_id
    THEN {Plan(e, "exact", e.email_id, r.id, OverwriteColumns(e, r.status)) :
            r \in {x \in apps : x.email_id = e.email_id}}
  ELSE IF LinkResolves(e)
    THEN {Plan(e, "link", r.email_id, r.id, OverwriteColumns(e, r.status)) :
            r \in {x \in apps : x.email_id = e.related_application_id}}
  ELSE {Plan(e, "insert", e.email_id, NullId, {})}

\* The SELECTs of a call, on the rows committed when it runs them.
Plans(e) ==
  IF \E r \in apps : r.email_id = e.email_id
    THEN {Plan(e, "exact", e.email_id, r.id, OverwriteColumns(e, r.status)) :
            r \in {x \in apps : x.email_id = e.email_id}}
  ELSE IF LinkResolves(e)
    THEN {Plan(e, "link", r.email_id, r.id, OverwriteColumns(e, r.status)) :
            r \in {x \in apps : x.email_id = e.related_application_id}}
  ELSE IF Truthy(e.company) /\ \E r \in Candidates(apps, e) : IsMatch(e, r)
    THEN {LET match == matches[FirstMatch(matches, e)]
          IN  Plan(e, "fuzzy", match.email_id, match.id,
                   FillColumns(match, e, match.status)) :
            matches \in FetchAll(apps, e)}
  ELSE {Plan(e, "insert", e.email_id, NullId, {})}

\* add_application(e) is called by p.
Begin(p, e) ==
  /\ procs[p].pc = "idle"
  /\ run.at = "top"
  /\ calls < MaxRaceCalls
  /\ calls' = calls + 1
  /\ procs' = [procs EXCEPT ![p] = [Idle EXCEPT !.pc = "connect", !.ev = e]]
  /\ UNCHANGED <<apps, ledger, nextId, last, db, run, verdict>>

\* conn = self._get_connection() and the lookups that choose the branch.
Connect(p) ==
  /\ procs[p].pc = "connect"
  /\ db = "up"
  /\ \E plan \in Plans(procs[p].ev) : procs' = [procs EXCEPT ![p] = plan]
  /\ UNCHANGED <<apps, ledger, nextId, last, calls, db, run, verdict>>

\* _get_connection raises: the error leaves add_application.
ConnectFails(p) ==
  /\ procs[p].pc = "connect"
  /\ db = "down"
  /\ procs' = [procs EXCEPT ![p].pc = "idle", ![p].result = "raised"]
  /\ UNCHANGED <<apps, ledger, nextId, last, calls, db, run, verdict>>

\* The UPDATE or the INSERT of the branch and conn.commit().
Write(p) ==
  LET c == procs[p] IN
    /\ c.pc = "write"
    /\ db = "up"
    /\ IF c.path = "insert"
         THEN /\ apps' = InsertOrUpdate(apps, c.ev, nextId)
              /\ nextId' = nextId + 1
              /\ \E r \in apps' :
                   /\ r.email_id = c.ev.email_id
                   /\ procs' = [procs EXCEPT ![p].pc = "mark",
                                             ![p].committed = TRUE,
                                             ![p].target = r.id]
         ELSE /\ apps' = {IF r.email_id = c.key
                            THEN SetColumns(r, c.ev, c.cols) ELSE r : r \in apps}
              /\ UNCHANGED nextId
              /\ procs' = [procs EXCEPT ![p].pc = "mark", ![p].committed = TRUE]
    /\ UNCHANGED <<ledger, last, calls, db, run, verdict>>

\* except psycopg2.Error: conn.rollback(); return pd.DataFrame()
WriteFails(p) ==
  /\ procs[p].pc = "write"
  /\ db = "down"
  /\ procs' = [procs EXCEPT ![p].pc = "idle", ![p].result = "failed"]
  /\ UNCHANGED <<apps, ledger, nextId, last, calls, db, run, verdict>>

\* self.mark_email_processed(email_id, app_id) and, on the fuzzy branch, the
\* UPDATE that sets related_application_id.
Mark(p) ==
  LET c == procs[p] IN
    /\ c.pc = "mark"
    /\ db = "up"
    /\ ledger' = mark_email_processed(ledger, c.ev.email_id, c.target)
    /\ apps' = IF c.path = "fuzzy"
                 THEN {IF r.email_id = c.ev.email_id
                         THEN [r EXCEPT !.related_application_id = c.key]
                         ELSE r : r \in apps}
                 ELSE apps
    /\ procs' = [procs EXCEPT ![p].pc = "idle", ![p].result = "ok"]
    /\ UNCHANGED <<nextId, last, calls, db, run, verdict>>

\* mark_email_processed cannot connect: the error is caught by
\* add_application, which returns with the row committed.
MarkFails(p) ==
  /\ procs[p].pc = "mark"
  /\ db = "down"
  /\ procs' = [procs EXCEPT ![p].pc = "idle", ![p].result = "unmarked"]
  /\ UNCHANGED <<apps, ledger, nextId, last, calls, db, run, verdict>>

\* PostgreSQL stops answering.
Outage ==
  /\ db = "up"
  /\ db' = "down"
  /\ UNCHANGED <<apps, ledger, nextId, last, calls, procs, run, verdict>>

\* PostgreSQL answers again.
Recover ==
  /\ db = "down"
  /\ db' = "up"
  /\ UNCHANGED <<apps, ledger, nextId, last, calls, procs, run, verdict>>

----------------------------------------------------------------------------
\* Events delivered by the classifier

Event(k, d, t, c, l, s, a, rel) ==
  [email_id |-> k, date |-> d, job_title |-> t, company |-> c, location |-> l,
   status |-> s, application_date |-> a, related_application_id |-> rel]

T1 == "2024-03-02T09:00"
T2 == "2024-04-02T09:00"

\* Status traffic about one application: every pipeline status, with and
\* without a link and a location.
StatusEvents ==
  {Event(k, T1, Null, "Amazon", l, s, Null, rel) :
     k \in EmailIds, l \in {Null, "SG"}, s \in Statuses, rel \in {Null, KeyName[1]}}

\* Status traffic that also carries an empty and an unknown status.
AnyStatusEvents ==
  {Event(k, T1, Null, "Amazon", Null, s, Null, rel) :
     k \in EmailIds, s \in Statuses \cup {"", "Pending"}, rel \in {Null, KeyName[1]}}

\* Several applications at two companies and two roles, with links.
ResolveEvents ==
  {Event(k, T1, t, c, Null, "Applied", Null, rel) :
     k \in EmailIds, t \in {"Data Eng", "Sr Staff Data Ops"},
     c \in {"Amazon", "Amazon.com"}, rel \in {Null, KeyName[2]}}

\* Applications that differ in their dates, one of them at a company whose
\* name extends the other's, and a linked event.
OrderEvents ==
  {Event(k, d, Null, "Amazon", Null, "Applied", a, Null) :
     k \in EmailIds, d \in {T1, T2},
     a \in {Null, "2024-03-01", "2024-03-31", "2024-04-01"}}
  \cup {Event(k, T1, Null, "Amazon.com", Null, "Applied", Null, Null) : k \in EmailIds}
  \cup {Event(k, T1, Null, "Amazon", Null, "Applied", Null, KeyName[1]) : k \in EmailIds}

\* Events about two roles at one company, either bare (no status, no location)
\* or full, with or without a link.
FieldEvents ==
  {Event(k, T1, t, "Amazon", f[1], f[2], Null, rel) :
     k \in EmailIds, t \in {"Data Eng", "Sr Staff Data Ops"},
     f \in {<<Null, Null>>, <<"SG", "Interview">>}, rel \in {Null, KeyName[2]}}

\* Two messages about one application, at three stages.
RaceEvents ==
  {Event(k, T1, "Data Eng", "Amazon", Null, s, Null, Null) :
     k \in {KeyName[1], KeyName[2]}, s \in {"Applied", "Interview", "Offer"}}

\* Messages about one application whose location is missing, blank or given.
FillEvents ==
  {Event(k, T1, "Data Eng", "Amazon", l, "Applied", Null, rel) :
     k \in EmailIds, l \in {Null, "", "SG", "NY"}, rel \in {Null, KeyName[1]}}

\* Messages that name no related application or the message of another
\* email_id, never themselves.
LinkEvents ==
  {e \in {Event(k, T1, t, "Amazon", Null, "Applied", Null, rel) :
            k \in EmailIds, t \in {"Data Eng", "Sr Staff Data Ops"},
            rel \in {Null} \cup EmailIds} :
     e.related_application_id # e.email_id}

\* Messages about one company whose titles are missing, blank, or of two,
\* three and four words with none, one or several words in common, and the
\* linked ones among them.
TitleEvents ==
  {Event(k, T1, t, "Amazon", Null, "Applied", Null, Null) :
     k \in EmailIds,
     t \in {Null, "", "Data Eng", "Sr Staff Data Ops", "Staff Eng Lead", "QA Lead"}}
  \cup {Event(k, T1, "Data Eng", "Amazon", Null, "Applied", Null, KeyName[1]) :
          k \in EmailIds}

NextStatus == \E e \in StatusEvents : add_application(e)

NextLink == \E e \in LinkEvents : add_application(e)

NextFill == \E e \in FillEvents : add_application(e)

NextTitle == \E e \in TitleEvents : add_application(e)

NextFields == \E e \in FieldEvents : add_application(e)

NextResolve == \E e \in ResolveEvents : add_application(e)

NextOrder == \E e \in OrderEvents : add_application(e)

NextAnyStatus == \E e \in AnyStatusEvents : add_application(e)

SpecStatus == Init /\ [][NextStatus]_vars

SpecFields == Init /\ [][NextFields]_vars

SpecFill == Init /\ [][NextFill]_vars

SpecLink == Init /\ [][NextLink]_vars

SpecTitle == Init /\ [][NextTitle]_vars

----------------------------------------------------------------------------
\* The loop of process_emails

\* What parse_email_with_llm may return for message m: the company found or
\* not, a related application named or not.
ParsedEvents(m) ==
  {Event(m, T1, "Data Eng", c, Null, "Applied", Null, rel) :
     c \in {Null, "", "Amazon"}, rel \in {Null, KeyName[1]}}

\* SELECT 1 FROM processed_emails WHERE email_id = %s
is_email_processed(l, email_id) == \E p \in l : p.email_id = email_id

\* The email_id column of load_data(), empty when the query fails.
LoadedIds == IF db = "up" THEN {r.email_id : r \in apps} ELSE {}

\* The next message of the list is taken.
NextMessage(m) ==
  /\ run.at = "top"
  /\ \A p \in Procs : procs[p].pc = "idle"
  /\ calls < MaxCalls
  /\ calls' = calls + 1

\* process_emails is started: existing_df = data_manager.load_data()
StartRun ==
  /\ run.at = "top"
  /\ db = "up"
  /\ run' = [NoRun EXCEPT !.outcome = "started", !.existing_df = LoadedIds]
  /\ UNCHANGED <<apps, ledger, nextId, last, calls, db, procs, verdict>>

\* is_email_processed cannot connect: the error ends process_emails.
Abort(m) ==
  /\ NextMessage(m)
  /\ db = "down"
  /\ run' = [run EXCEPT !.msg = m, !.report = "none", !.outcome = "aborted"]
  /\ UNCHANGED <<apps, ledger, nextId, last, db, procs, verdict>>

\* if data_manager.is_email_processed(msg_id): skipped_count += 1; continue
SkipProcessed(m) ==
  /\ NextMessage(m)
  /\ db = "up"
  /\ is_email_processed(ledger, m)
  /\ run' = [run EXCEPT !.msg = m, !.report = "none", !.outcome = "skipped"]
  /\ UNCHANGED <<apps, ledger, nextId, last, db, procs, verdict>>

\* if not email_data: continue
NoDetails(m) ==
  /\ NextMessage(m)
  /\ db = "up"
  /\ ~is_email_processed(ledger, m)
  /\ run' = [run EXCEPT !.msg = m, !.report = "none", !.outcome = "nodetails"]
  /\ UNCHANGED <<apps, ledger, nextId, last, db, procs, verdict>>

\* parse_email_with_llm raises (no OPENAI_API_KEY, a malformed message):
\* control goes to the except branch of the loop.
ParseRaises(m) ==
  /\ NextMessage(m)
  /\ db = "up"
  /\ ~is_email_processed(ledger, m)
  /\ run' = [run EXCEPT !.at = "handler", !.msg = m, !.report = "none",
                         !.outcome = "none"]
  /\ UNCHANGED <<apps, ledger, nextId, last, db, procs, verdict>>

\* The discard without the ledger write.
Discard_NoMark(m, e) ==
  /\ NextMessage(m)
  /\ db = "up"
  /\ ~is_email_processed(ledger, m)
  /\ ~Truthy(e.company)
  /\ run' = [run EXCEPT !.msg = m, !.report = "none", !.outcome = "discarded"]
  /\ UNCHANGED <<apps, ledger, nextId, last, db, procs, verdict>>

\* if not application_data.get('company'): skipped_count += 1;
\* data_manager.mark_email_processed(msg_id); continue
Discard(m, e) ==
  /\ NextMessage(m)
  /\ db = "up"
  /\ ~is_email_processed(ledger, m)
  /\ ~Truthy(e.company)
  /\ ledger' = mark_email_processed(ledger, m, NullId)
  /\ run' = [run EXCEPT !.msg = m, !.report = "none", !.outcome = "discarded"]
  /\ UNCHANGED <<apps, nextId, last, db, procs, verdict>>

\* The message printed and the counter incremented before the save:
\* updated_applications for "updating" and "linked", new_applications for
\* "new".
Report(e, is_new_application) ==
  IF e.email_id \in run.existing_df THEN "updating"
  ELSE IF ~is_new_application /\ Truthy(e.related_application_id) THEN "linked"
  ELSE "new"

\* The event has a company: it is reported and add_application is called.
Classify(m, e, is_new_application) ==
  /\ NextMessage(m)
  /\ db = "up"
  /\ ~is_email_processed(ledger, m)
  /\ Truthy(e.company)
  /\ run' = [run EXCEPT !.at = "saving", !.msg = m,
                         !.report = Report(e, is_new_application),
                         !.outcome = "none"]
  /\ procs' = [procs EXCEPT ![1] = [Idle EXCEPT !.pc = "connect", !.ev = e]]
  /\ UNCHANGED <<apps, ledger, nextId, last, db, verdict>>

\* add_application returned: "Saved successfully", existing_df is reloaded
\* and processed_count incremented.
Saved ==
  /\ run.at = "saving"
  /\ procs[1].pc = "idle"
  /\ procs[1].result \in {"ok", "failed", "unmarked"}
  /\ run' = [run EXCEPT !.at = "top", !.outcome = "saved",
                         !.existing_df = LoadedIds]
  /\ UNCHANGED <<apps, ledger, nextId, last, calls, db, procs, verdict>>

\* add_application raised: except Exception as e: skipped_count += 1
Raised ==
  /\ run.at = "saving"
  /\ procs[1].pc = "idle"
  /\ procs[1].result = "raised"
  /\ run' = [run EXCEPT !.at = "handler"]
  /\ UNCHANGED <<apps, ledger, nextId, last, calls, db, procs, verdict>>

\* The except branch without its ledger write.
Handler_NoMark ==
  /\ run.at = "handler"
  /\ db = "up"
  /\ run' = [run EXCEPT !.at = "top", !.outcome = "error"]
  /\ UNCHANGED <<apps, ledger, nextId, last, calls, db, procs, verdict>>

\* Mark as processed even on error to avoid infinite retries:
\* data_manager.mark_email_processed(msg_id); continue
Handler ==
  /\ run.at = "handler"
  /\ db = "up"
  /\ ledger' = mark_email_processed(ledger, run.msg, NullId)
  /\ run' = [run EXCEPT !.at = "top", !.outcome = "error"]
  /\ UNCHANGED <<apps, nextId, last, calls, db, procs, verdict>>

\* mark_email_processed cannot connect inside the except branch: the error
\* ends process_emails.
HandlerAborts ==
  /\ run.at = "handler"
  /\ db = "down"
  /\ run' = [run EXCEPT !.at = "top", !.outcome = "aborted"]
  /\ UNCHANGED <<apps, ledger, nextId, last, calls, db, procs, verdict>>

NextIngest ==
  \/ StartRun
  \/ \E m \in EmailIds : Abort(m)
  \/ \E m \in EmailIds : SkipProcessed(m)
  \/ \E m \in EmailIds : NoDetails(m)
  \/ \E m \in EmailIds : ParseRaises(m)
  \/ \E m \in EmailIds : \E e \in ParsedEvents(m) : Discard(m, e)
  \/ \E m \in EmailIds : \E e \in ParsedEvents(m) :
       \E is_new_application \in BOOLEAN : Classify(m, e, is_new_application)
  \/ Connect(1)
  \/ ConnectFails(1)
  \/ Write(1)
  \/ WriteFails(1)
  \/ Mark(1)
  \/ MarkFails(1)
  \/ Saved
  \/ Raised
  \/ Handler
  \/ HandlerAborts
  \/ Outage
  \/ Recover

SpecIngest == Init /\ [][NextIngest]_vars

\* Two callers of add_application, each statement by statement.
NextRace ==
  \/ \E p \in Procs, e \in RaceEvents : Begin(p, e)
  \/ \E p \in Procs : Connect(p)
  \/ \E p \in Procs : ConnectFails(p)
  \/ \E p \in Procs : Write(p)
  \/ \E p \in Procs : WriteFails(p)
  \/ \E p \in Procs : Mark(p)
  \/ \E p \in Procs : MarkFails(p)
  \/ Outage
  \/ Recover

SpecRace == Init /\ [][NextRace]_vars

----------------------------------------------------------------------------
\* should_update_status on its own

\* The statuses handed to should_update_status, the pipeline statuses and
\* two strings outside STATUS_HIERARCHY.
StatusArgs == Statuses \cup {"", "Pending"}

\* A pair of statuses is chosen.
InitHierarchy ==
  /\ InitStore
  /\ \E c \in StatusArgs, n \in StatusArgs :
       verdict = [current_status |-> c, new_status |-> n, allowed |-> Null]

\* The value returned by should_update_status, by name.
Returned(b) == IF b THEN "True" ELSE "False"

\* should_update_status(current_status, new_status) is evaluated.
Decide ==
  /\ verdict.allowed = Null
  /\ verdict' = [verdict EXCEPT
                   !.allowed = Returned(should_update_status(verdict.current_status,
                                                             verdict.new_status))]
  /\ UNCHANGED <<apps, ledger, nextId, last, calls, db, procs, run>>

NextHierarchy == Decide

SpecHierarchy == InitHierarchy /\ [][NextHierarchy]_vars

SpecResolve == Init /\ [][NextResolve]_vars

SpecOrder == Init /\ [][NextOrder]_vars

SpecAnyStatus == Init /\ [][NextAnyStatus]_vars

----------------------------------------------------------------------------
\* DataManager.update_status, statement by statement

\* The arguments of the manual update: the email_id of a stored or of an
\* unknown application and the status chosen by the user.
ManualArgs == EmailIds \X {"Applied", "Rejected"}

\* update_status(email_id, new_status) is called by p.
CallUpdateStatus(p, email_id, new_status) ==
  /\ procs[p].pc = "idle"
  /\ run.at = "top"
  /\ calls < MaxRaceCalls
  /\ calls' = calls + 1
  /\ procs' = [procs EXCEPT ![p] =
                 [Idle EXCEPT !.pc = "status_connect", !.path = "manual",
                              !.key = email_id,
                              !.ev = [NoEvent EXCEPT !.email_id = email_id,
                                                     !.status = new_status]]]
  /\ UNCHANGED <<apps, ledger, nextId, last, db, run, verdict>>

\* conn = self._get_connection()
StatusConnect(p) ==
  /\ procs[p].pc = "status_connect"
  /\ db = "up"
  /\ procs' = [procs EXCEPT ![p].pc = "status_execute"]
  /\ UNCHANGED <<apps, ledger, nextId, last, calls, db, run, verdict>>

\* _get_connection raises: the error leaves update_status.
StatusConnectFails(p) ==
  /\ procs[p].pc = "status_connect"
  /\ db = "down"
  /\ procs' = [procs EXCEPT ![p].pc = "idle", ![p].result = "raised"]
  /\ UNCHANGED <<apps, ledger, nextId, last, calls, db, run, verdict>>

\* The UPDATE made only when should_update_status allows the new status.
update_status_Guarded(p) ==
  LET c == procs[p] IN
    /\ c.pc = "status_execute"
    /\ db = "up"
    /\ apps' = {IF r.email_id = c.key /\ should_update_status(r.status, c.ev.status)
                  THEN [r EXCEPT !.status = c.ev.status] ELSE r : r \in apps}
    /\ procs' = [procs EXCEPT
                   ![p].pc = "idle", ![p].committed = TRUE,
                   ![p].result = Returned(\E r \in apps : r.email_id = c.key)]
    /\ UNCHANGED <<ledger, nextId, last, calls, db, run, verdict>>

\* UPDATE job_applications SET status = %s ... WHERE email_id = %s;
\* conn.commit(); return cursor.rowcount > 0
update_status(p) ==
  LET c == procs[p] IN
    /\ c.pc = "status_execute"
    /\ db = "up"
    /\ apps' = {IF r.email_id = c.key
                  THEN [r EXCEPT !.status = c.ev.status] ELSE r : r \in apps}
    /\ procs' = [procs EXCEPT
                   ![p].pc = "idle", ![p].committed = TRUE,
                   ![p].result = Returned(\E r \in apps : r.email_id = c.key)]
    /\ UNCHANGED <<ledger, nextId, last, calls, db, run, verdict>>

\* except psycopg2.Error: conn.rollback(); return False
StatusExecuteFails(p) ==
  /\ procs[p].pc = "status_execute"
  /\ db = "down"
  /\ procs' = [procs EXCEPT ![p].pc = "idle", ![p].result = "False"]
  /\ UNCHANGED <<apps, ledger, nextId, last, calls, db, run, verdict>>

\* The ingestion of messages by caller 1 and the manual updates of the
\* dashboard by caller 2.
NextManual ==
  \/ \E e \in RaceEvents : Begin(1, e)
  \/ Connect(1)
  \/ ConnectFails(1)
  \/ Write(1)
  \/ WriteFails(1)
  \/ Mark(1)
  \/ MarkFails(1)
  \/ \E a \in ManualArgs : CallUpdateStatus(2, a[1], a[2])
  \/ StatusConnect(2)
  \/ StatusConnectFails(2)
  \/ update_status(2)
  \/ StatusExecuteFails(2)
  \/ Outage
  \/ Recover

SpecManual == Init /\ [][NextManual]_vars

----------------------------------------------------------------------------
\* Vocabulary of the properties

\* Priority of a pipeline stage as tabulated in the design (section 4.2).
Rank(s) ==
  CASE s = "Recruiter Screen" -> 1
    [] s = "Interview" -> 2
    [] s \in {"Rejected", "Ghosted", "Dropped"} -> 3
    [] s = "Offer" -> 4
    [] OTHER -> 0

\* The transition rule allow(current, proposed) of section 4.2.
Allow(current, proposed) ==
  IF Rank(proposed) > Rank(current) THEN TRUE
  ELSE IF Rank(current) = 3 /\ Rank(proposed) = 3 THEN current = proposed
  ELSE IF Rank(current) >= 3 /\ Rank(proposed) < 3 THEN FALSE
  ELSE IF Rank(current) < 3 /\ Rank(proposed) >= Rank(current) /\ Rank(proposed) < 3
    THEN TRUE
  ELSE FALSE

\* The call just made resolved to an existing record.
Resolved(l) == l.path \in {"exact", "link", "fuzzy"}

\* The record with internal id i.
RecordsWithId(A, i) == {r \in A : r.id = i}

----------------------------------------------------------------------------
\* C1  Idempotence: applying an event with a non-empty email_id and company a
\* second time, right after it was applied, leaves every record as the first
\* application left it.
C1_Idempotence ==
  [][(last.path # "none" /\ last'.ev = last.ev /\ Truthy(last.ev.company))
       => apps' = apps]_vars

\* C2  Monotonic status: with events that carry pipeline statuses, no call
\* lowers the priority of any record's status, and a call whose transition the
\* hierarchy disallows leaves the status of its target as it was.
C2_MonotonicStatus ==
  [][/\ \A r \in apps : \E r2 \in apps' :
          r2.id = r.id /\ Rank(r2.status) >= Rank(r.status)
     /\ Resolved(last') =>
          \A r \in RecordsWithId(apps, last'.target) :
            ~Allow(r.status, last'.ev.status) =>
              \A r2 \in RecordsWithId(apps', r.id) : r2.status = r.status]_vars

\* A call whose status would move its target backward has been applied.
C2_Witness ==
  /\ Resolved(last)
  /\ \E r \in RecordsWithId(apps, last.target) :
       /\ Rank(last.ev.status) < Rank(r.status)
       /\ ~Allow(r.status, last.ev.status)

\* C3  Terminal absorption: a record whose status is Offer has status Offer
\* after every call, whatever path the call takes and whatever status the
\* event carries.
C3_OfferAbsorbing ==
  [][\A r \in apps : r.status = "Offer" =>
       \E r2 \in apps' : r2.id = r.id /\ r2.status = "Offer"]_vars

\* C4  No backward escape: a call that changes the status of a record that is
\* Rejected, Ghosted or Dropped carries the status Offer.
C4_NoBackwardEscape ==
  [][\A r \in apps : r.status \in {"Rejected", "Ghosted", "Dropped"} =>
       \A r2 \in RecordsWithId(apps', r.id) :
         r2.status # r.status => last'.ev.status = "Offer"]_vars

\* C5  Uniqueness: no two records share an email_id, the ledger has at most
\* one entry per email_id, and an entry's reference is null or the id of
\* exactly one record.
C5_Uniqueness ==
  /\ \A r1, r2 \in apps : r1.email_id = r2.email_id => r1 = r2
  /\ \A p1, p2 \in ledger : p1.email_id = p2.email_id => p1 = p2
  /\ \A p \in ledger :
       \/ p.application_id = NullId
       \/ Cardinality(RecordsWithId(apps, p.application_id)) = 1

\* An event key has been applied again after it was merged into one of
\* several records.
C5_Witness ==
  /\ Cardinality(apps) >= 2
  /\ Resolved(last)
  /\ \E p \in ledger :
       /\ p.email_id = last.ev.email_id
       /\ p.application_id # last.target

\* The company criterion of the design (section 4.1): containment of the
\* lower-cased names in either direction.
ContainsEitherWay(e, r) ==
  /\ Truthy(e.company)
  /\ Truthy(r.company)
  /\ \/ Contains(LowerText[r.company], LowerText[e.company])
     \/ Contains(LowerText[e.company], LowerText[r.company])

\* Record r satisfies company, role and date match for event e.
SatisfiesMatch(e, r) ==
  ContainsEitherWay(e, r) /\ role_match(e, r) /\ date_match(e, r)

\* The candidate order of the design: application_date descending with
\* nulls last, then ingestion date descending.
Precedes(r1, r2) ==
  \/ r1.application_date # Null /\ r2.application_date = Null
  \/ /\ r1.application_date # Null /\ r2.application_date # Null
     /\ Days[r1.application_date] > Days[r2.application_date]
  \/ /\ r1.application_date = r2.application_date
     /\ r1.date # Null /\ r2.date # Null
     /\ Stamp[r1.date] > Stamp[r2.date]

\* C6  Resolution order: a call whose email_id names a record changes no
\* other record and adds none, whatever its related id and company; a call
\* without such a record whose related id names a record changes no other
\* record and adds none, whatever its company.
C6_ResolutionOrder ==
  [][LET e == last'.ev
         exact == \E r \in apps : r.email_id = e.email_id
     IN  /\ exact =>
              /\ \A r \in apps : r.email_id # e.email_id => r \in apps'
              /\ Cardinality(apps') = Cardinality(apps)
         /\ (~exact /\ Truthy(e.related_application_id)
               /\ \E r \in apps : r.email_id = e.related_application_id) =>
              /\ \A r \in apps : r.email_id # e.related_application_id => r \in apps'
              /\ Cardinality(apps') = Cardinality(apps)]_vars

\* An exact match was applied although the event's related id names a second
\* record and a third record passes the fuzzy checks.
C6_Witness ==
  /\ last.path = "exact"
  /\ \E r1, r2, r3 \in apps :
       /\ r1.email_id = last.ev.email_id
       /\ r2.email_id = last.ev.related_application_id
       /\ r3 \notin {r1, r2} /\ r1 # r2
       /\ r3 \in Candidates(apps, last.ev)
       /\ IsMatch(last.ev, r3)

\* C7  Explicit link through the ledger: when the event has no record of its
\* own and its related id, the key of another event, has a ledger entry that
\* references record R, the call merges into R: no record is added and no
\* record but R changes.
C7_LinkThroughLedger ==
  [][LET e == last'.ev IN
       (Truthy(e.related_application_id)
          /\ e.related_application_id # e.email_id
          /\ ~\E r \in apps : r.email_id = e.email_id) =>
         \A p \in ledger : p.email_id = e.related_application_id =>
           \A R \in RecordsWithId(apps, p.application_id) :
             /\ Cardinality(apps') = Cardinality(apps)
             /\ \A r \in apps : r.id # R.id => r \in apps']_vars

\* C8  Symmetric containment: an event without exact match and without link,
\* whose company contains or is contained by the company of a record that is
\* role and date compatible, is merged and gets no record of its own.
C8_SymmetricContainment ==
  [][LET e == last'.ev IN
       (/\ ~\E r \in apps : r.email_id = e.email_id
        /\ e.related_application_id = Null
        /\ \E r \in apps : SatisfiesMatch(e, r)) =>
         ~\E r2 \in apps' : r2.email_id = e.email_id]_vars

\* C9  Deterministic fuzzy winner: after a fuzzy merge no other record that
\* satisfies company, role and date match precedes the record merged into,
\* and no such record is modified.
C9_DeterministicWinner ==
  [][last'.path = "fuzzy" =>
       \A tgt \in RecordsWithId(apps, last'.target) :
         \A r \in apps :
           (r # tgt /\ SatisfiesMatch(last'.ev, r)) =>
             (~Precedes(r, tgt) /\ r \in apps')]_vars

\* C10  A disallowed transition suppresses only the status: when the call
\* resolves to a target and should_update_status is false for the event's
\* status, the target keeps its status, takes every other non-null column of
\* the event, and the ledger records the event against the target.
C10_OnlyStatusSuppressed ==
  [][LET e == last'.ev IN
       Resolved(last') =>
         \A tgt \in RecordsWithId(apps, last'.target) :
           (e.status # Null /\ ~should_update_status(tgt.status, e.status)) =>
             /\ \E after \in RecordsWithId(apps', tgt.id) :
                  /\ after.status = tgt.status
                  /\ \A f \in valid_columns \ {"status"} :
                       e[f] # Null => after[f] = e[f]
             /\ \E p \in ledger' :
                  p.email_id = e.email_id /\ p.application_id = tgt.id]_vars

\* C12  Creation: a call that reaches the insert adds exactly one record; the
\* record has the event's email_id and every non-null column of the event, its
\* status is Applied when the event has none, and the ledger entry of the
\* event's email_id references the new record.
C12_Creation ==
  [][LET e == last'.ev IN
       last'.path = "insert" =>
         /\ Cardinality(apps') = Cardinality(apps) + 1
         /\ \E n \in apps' :
              /\ apps' = apps \cup {n}
              /\ n.email_id = e.email_id
              /\ \A f \in valid_columns : e[f] # Null => n[f] = e[f]
              /\ e.status = Null => n.status = "Applied"
              /\ \E p \in ledger' :
                   p.email_id = e.email_id /\ p.application_id = n.id]_vars

\* C12 as the code has it: the ledger entry references the new record when
\* the email_id had no entry before the call; an entry that existed is kept
\* with the reference it had.
C12_CreationFreshLedger ==
  [][LET e == last'.ev IN
       last'.path = "insert" =>
         /\ Cardinality(apps') = Cardinality(apps) + 1
         /\ \E n \in apps' :
              /\ apps' = apps \cup {n}
              /\ n.email_id = e.email_id
              /\ \A f \in valid_columns : e[f] # Null => n[f] = e[f]
              /\ e.status = Null => n.status = "Applied"
              /\ IF \E q \in ledger : q.email_id = e.email_id
                   THEN ledger' = ledger
                   ELSE ledger' = ledger \cup
                          {[email_id |-> e.email_id, application_id |-> n.id]}]_vars

\* An event without status has been inserted as a second record, under an
\* email_id the ledger had not seen.
C12_Witness ==
  /\ last.path = "insert"
  /\ last.ev.status = Null
  /\ Cardinality(apps) >= 2
  /\ \E n \in RecordsWithId(apps, last.target) :
       /\ n.status = "Applied"
       /\ [email_id |-> last.ev.email_id, application_id |-> n.id] \in ledger

\* C15  The ledger points at the merge target: after a call that resolves to
\* a record by exact match, link or fuzzy match, the ledger entry of the
\* event's email_id references that record, also when an entry existed before.
C15_LedgerPointsAtTarget ==
  [][Resolved(last') =>
       \E p \in ledger' :
         /\ p.email_id = last'.ev.email_id
         /\ p.application_id = last'.target]_vars

\* C15 as the code has it: the entry references the target when the call
\* created it; an entry that existed before the call keeps its reference.
C15_LedgerFreshPointsAtTarget ==
  [][Resolved(last') =>
       IF \E q \in ledger : q.email_id = last'.ev.email_id
         THEN ledger' = ledger
         ELSE ledger' = ledger \cup
                {[email_id |-> last'.ev.email_id,
                  application_id |-> last'.target]}]_vars

\* An exact match was applied to a record while the ledger entry of the
\* event's email_id, made by an earlier merge, references another record.
C15_Witness ==
  /\ last.path = "exact"
  /\ \E p \in ledger :
       /\ p.email_id = last.ev.email_id
       /\ p.application_id \notin {NullId, last.target}
       /\ RecordsWithId(apps, p.application_id) # {}

\* C18  Unrecognized statuses rank 0: a call that resolves to a record whose
\* status has priority 1 or more, with an event whose status is present and
\* is not a pipeline status, leaves the status of the record as it was.
C18_UnrecognizedKeepsStatus ==
  [][(Resolved(last') /\ last'.ev.status \notin Statuses \cup {Null}) =>
       \A tgt \in RecordsWithId(apps, last'.target) :
         Rank(tgt.status) >= 1 =>
           \A after \in RecordsWithId(apps', tgt.id) :
             after.status = tgt.status]_vars

\* C20  Last write wins on exact and link matches: every column but the
\* status that the event gives replaces the value of the target, and every
\* column the event leaves null keeps the value the target had.
C20_LastWriteWins ==
  [][LET e == last'.ev IN
       last'.path \in {"exact", "link"} =>
         \A tgt \in RecordsWithId(apps, last'.target) :
           \E after \in RecordsWithId(apps', tgt.id) :
             \A f \in valid_columns \ {"status"} :
               after[f] = IF e[f] # Null THEN e[f] ELSE tgt[f]]_vars

\* A link match has been applied to the record of another email_id: the
\* record has the job title of the event and the location the event did not
\* give.
C20_Witness ==
  /\ last.path = "link"
  /\ last.ev.location = Null
  /\ \E r \in RecordsWithId(apps, last.target) :
       /\ r.location = "SG"
       /\ r.job_title = last.ev.job_title
       /\ r.email_id # last.ev.email_id
       /\ r.job_title = "Sr Staff Data Ops"

\* C19  should_update_status agrees with the transition rule of section 4.2
\* on every ordered pair of the seven statuses.
C19_AgreesWithRule ==
  (verdict.allowed # Null
     /\ verdict.current_status \in Statuses /\ verdict.new_status \in Statuses) =>
    (verdict.allowed = "True") = Allow(verdict.current_status, verdict.new_status)

\* The rule of section 4.2 with the second case as the code has it: between
\* two statuses of priority 3 nothing is allowed, not even the same value.
AllowNoLateral(current, proposed) ==
  IF Rank(proposed) > Rank(current) THEN TRUE
  ELSE IF Rank(current) = 3 /\ Rank(proposed) = 3 THEN FALSE
  ELSE IF Rank(current) >= 3 /\ Rank(proposed) < 3 THEN FALSE
  ELSE IF Rank(current) < 3 /\ Rank(proposed) >= Rank(current) /\ Rank(proposed) < 3
    THEN TRUE
  ELSE FALSE

\* C19 as the code has it: should_update_status agrees with the rule in
\* which a pair of statuses of priority 3 is always disallowed.
C19_AgreesWithRuleNoLateral ==
  (verdict.allowed # Null
     /\ verdict.current_status \in Statuses /\ verdict.new_status \in Statuses) =>
    (verdict.allowed = "True")
      = AllowNoLateral(verdict.current_status, verdict.new_status)

\* should_update_status has been evaluated on Rejected against Rejected.
C19_Witness ==
  /\ verdict.current_status = "Rejected"
  /\ verdict.new_status = "Rejected"
  /\ verdict.allowed = "False"

\* C13  All-or-nothing apply: when a call of add_application returns, its
\* row write and its ledger write are both visible or neither is: a call that
\* committed its row leaves a ledger entry for its email_id, and a call that
\* committed no row leaves the ledger as it was.
C13_AllOrNothing ==
  [][\A p \in Procs :
       (procs[p].pc # "idle" /\ procs'[p].pc = "idle") =>
         /\ procs'[p].committed =>
              \E l \in ledger' : l.email_id = procs'[p].ev.email_id
         /\ ~procs'[p].committed => ledger' = ledger]_vars

\* Two events with distinct email_ids that describe the same application:
\* each passes the company, role and date checks against the other.
SameApplication(a, b) ==
  /\ a.email_id # b.email_id
  /\ SatisfiesMatch(a, NewRow(b, 1))
  /\ SatisfiesMatch(b, NewRow(a, 1))

\* The only two calls made so far, for events that describe the same
\* application, have both returned after their two commits.
BothReturned(P) ==
  /\ calls = 2
  /\ \A p \in Procs : P[p].pc = "idle" /\ P[p].result = "ok"
  /\ SameApplication(P[1].ev, P[2].ev)

\* C17  The fuzzy read-then-write without a single writer.  When the two
\* calls run one after the other, the reads of the second find the row of the
\* first and choose the fuzzy merge into it, and after both returned there is
\* one record; two records exist only when both calls chose the insert, each
\* having run its candidate query before the other wrote.
C17_SequentialCallsMerge ==
  [][/\ \A p, q \in Procs :
          (/\ p # q
           /\ calls = 2
           /\ procs[q].pc = "idle" /\ procs[q].result = "ok"
           /\ procs[p].pc = "connect" /\ procs'[p].pc = "write"
           /\ SameApplication(procs[p].ev, procs[q].ev)) =>
            /\ procs'[p].path = "fuzzy"
            /\ procs'[p].key = procs[q].ev.email_id
     /\ BothReturned(procs)' =>
          IF \A p \in Procs : procs'[p].path = "insert"
            THEN Cardinality(apps') = 2
            ELSE Cardinality(apps') = 1]_vars

\* Both calls ran their candidate query before either wrote: each inserted,
\* and the application has two records.
C17_Witness ==
  /\ BothReturned(procs)
  /\ \A p \in Procs : procs[p].path = "insert"
  /\ \E r1, r2 \in apps :
       /\ r1.email_id = procs[1].ev.email_id
       /\ r2.email_id = procs[2].ev.email_id
       /\ r1.id # r2.id

\* The ledger entry of a discarded message.
NullEntry(m) == [email_id |-> m, application_id |-> NullId]

\* The loop has just taken message m from the list.
Takes(m) == calls' = calls + 1 /\ run'.msg = m

C16_ReportMatchesOutcome ==
  (run.outcome = "saved" /\ procs[1].result = "ok") =>
    /\ run.report = "new" <=> procs[1].path = "insert"
    /\ run.report = "updating" <=> procs[1].path = "exact"
    /\ run.report = "linked" <=> procs[1].path \in {"link", "fuzzy"}

\* C21  Fill-forward on fuzzy matches: a column other than the status that
\* the event gives is written to the target exactly when the target's value
\* is empty or the event's value is non-empty; a blank or null value of the
\* event never replaces a non-empty value of the target.
C21_FillForward ==
  [][LET e == last'.ev IN
       last'.path = "fuzzy" =>
         \A tgt \in RecordsWithId(apps, last'.target) :
           \E after \in RecordsWithId(apps', tgt.id) :
             \A f \in valid_columns \ {"status"} :
               /\ after[f] = IF e[f] # Null /\ (~Truthy(tgt[f]) \/ Truthy(e[f]))
                               THEN e[f] ELSE tgt[f]
               /\ (Truthy(tgt[f]) /\ ~Truthy(e[f])) => after[f] = tgt[f]]_vars

\* A fuzzy match whose event has a blank location was applied to a record
\* with a location, and the record has kept it.
C21_Witness ==
  /\ last.path = "fuzzy"
  /\ last.ev.location = ""
  /\ \E r \in RecordsWithId(apps, last.target) : r.location = "SG"

\* C22  Records are permanent and their keys fixed: every record keeps its
\* id and its email_id through every call, so the set of (id, email_id)
\* pairs only grows.
C22_RecordsPermanent ==
  [][\A r \in apps :
       \E r2 \in apps' : r2.id = r.id /\ r2.email_id = r.email_id]_vars

\* A record has been updated through the link of an event with another
\* email_id while a second record exists.
C22_Witness ==
  /\ last.path = "link"
  /\ Cardinality(apps) >= 2
  /\ \E r \in RecordsWithId(apps, last.target) :
       /\ r.email_id # last.ev.email_id
       /\ r.job_title = last.ev.job_title

\* C23  Ledger entries are write-once: the ledger has at most one entry per
\* email_id, and an entry, once made, keeps its email_id and its reference
\* through every call, also when the same email_id is marked again.
C23_LedgerWriteOnce ==
  [][/\ \A p \in ledger : p \in ledger'
     /\ \A p1, p2 \in ledger' : p1.email_id = p2.email_id => p1 = p2]_vars

\* An email_id that was merged into one record has been marked again by the
\* insert of a record of its own, and its entry still names the first record.
C23_Witness ==
  /\ last.path = "insert"
  /\ \E p \in ledger :
       /\ p.email_id = last.ev.email_id
       /\ p.application_id # last.target

\* C27  Single-record effect: a call inserts or modifies at most one record
\* and leaves the others as they were; after a link or a fuzzy merge the
\* number of records is the same and no record has the event's email_id.
C27_SingleRecordEffect ==
  [][/\ Cardinality({r \in apps' : r \notin apps}) <= 1
     /\ Cardinality({r \in apps : r \notin apps'}) <= 1
     /\ \A r \in apps : r \notin apps' =>
          \E r2 \in apps' : r2.id = r.id /\ r2 \notin apps
     /\ last'.path \in {"link", "fuzzy"} =>
          /\ Cardinality(apps') = Cardinality(apps)
          /\ ~\E r \in apps' : r.email_id = last'.ev.email_id]_vars

\* A fuzzy merge was applied while two records passed its checks; the event
\* has no record of its own.
C27_Witness ==
  /\ last.path = "fuzzy"
  /\ Cardinality({r \in Candidates(apps, last.ev) : IsMatch(last.ev, r)}) >= 2
  /\ ~\E r \in apps : r.email_id = last.ev.email_id

\* C28  No self-links: the related_application_id of a record is null or
\* names an email_id other than the record's own.
C28_NoSelfLinks ==
  \A r \in apps :
    r.related_application_id = Null \/ r.related_application_id # r.email_id

\* The lower-cased whitespace tokens of a title.
Tokens == [t \in DOMAIN Text |-> SplitWords(LowerSeq(Text[t]))]

\* The role criterion of the design (section 4.1) on an incoming title t and
\* a candidate's title c.
RoleRule(t, c) ==
  \/ ~Truthy(t)
  \/ ~Truthy(c)
  \/ Cardinality(Tokens[t] \cap Tokens[c]) >= 2
  \/ /\ Cardinality(Tokens[t] \cap Tokens[c]) >= 1
     /\ Cardinality(Tokens[t]) <= 3

DateRule(a, b) ==
  \/ ~Truthy(a)
  \/ ~Truthy(b)
  \/ (Days[a] - Days[b] <= 30 /\ Days[b] - Days[a] <= 30)

C26_NeverReapplies ==
  [][/\ (calls' = calls + 1 /\ is_email_processed(ledger, run'.msg)) =>
          /\ run'.outcome \in {"skipped", "aborted"}
          /\ run'.at = "top"
          /\ UNCHANGED <<apps, ledger, nextId, procs>>
     /\ ~(/\ procs[1].path = "exact"
          /\ ~procs[1].committed
          /\ procs'[1].committed)]_vars

\* C30  Same-key interleaving keeps the status monotonic: while the two
\* callers carry events of one email_id, in whatever order their reads and
\* writes fall, there is at most one record with that email_id and no step
\* lowers the priority of its status.
C30_SameKeyMonotonic ==
  [][\A k \in EmailIds :
       (\A p \in Procs : procs[p].ev.email_id = k) =>
         /\ Cardinality({r \in apps' : r.email_id = k}) <= 1
         /\ \A r \in apps, w \in apps' :
              (r.email_id = k /\ w.email_id = k) =>
                Rank(w.status) >= Rank(r.status)]_vars

\* C29  The manual update is unconditional: when update_status returns, the
\* record with the given email_id, if any, has the given status whatever its
\* status was, every other record and field is as before, and the value
\* returned is true exactly when such a record exists; when the store fails
\* the call returns false and the records are as before.
C29_ManualUpdate ==
  [][\A p \in Procs :
       (procs[p].path = "manual" /\ procs[p].pc # "idle" /\ procs'[p].pc = "idle") =>
         LET k == procs[p].ev.email_id
             s == procs[p].ev.status
         IN  IF db = "up"
               THEN /\ procs'[p].result =
                         (IF \E r \in apps : r.email_id = k THEN "True" ELSE "False")
                    /\ apps' = {IF r.email_id = k THEN [r EXCEPT !.status = s] ELSE r :
                                 r \in apps}
               ELSE /\ procs'[p].result = "False"
                    /\ apps' = apps]_vars

\* C29 as the code has it: the same, except that a call which cannot open
\* its connection ends with the error of _get_connection instead of
\* returning; a store error after that makes it return false.  In both cases
\* the records are as before.
C29_ManualUpdateOrRaise ==
  [][\A p \in Procs :
       (procs[p].path = "manual" /\ procs[p].pc # "idle" /\ procs'[p].pc = "idle") =>
         LET k == procs[p].ev.email_id
             s == procs[p].ev.status
         IN  IF db = "up"
               THEN /\ procs'[p].result =
                         (IF \E r \in apps : r.email_id = k THEN "True" ELSE "False")
                    /\ apps' = {IF r.email_id = k THEN [r EXCEPT !.status = s] ELSE r :
                                 r \in apps}
               ELSE /\ procs'[p].result =
                         (IF procs[p].pc = "status_connect" THEN "raised" ELSE "False")
                    /\ apps' = apps]_vars

\* The record inserted with status Offer by caller 1 has been set back to
\* Applied by the manual update of caller 2, which returned true.
C29_Witness ==
  /\ procs[1].path = "insert"
  /\ procs[1].result = "ok"
  /\ procs[1].ev.status = "Offer"
  /\ procs[1].ev.email_id = procs[2].key
  /\ procs[2].path = "manual"
  /\ procs[2].result = "True"
  /\ procs[2].ev.status = "Applied"
  /\ \E r \in apps : r.email_id = procs[2].key /\ r.status = "Applied"

====
